---- MODULE Spec2Model ----
(***************************************************************************)
(* Model of the sfrom crate (crates/sfrom/src/lib.rs): the SFROM container *)
(* codec.  Byte buffers are sequences of naturals in 0..255.  Parsers      *)
(* return nom-style results: Ok(rest, value), Err(rest, kind), and a       *)
(* third outcome Panic for the Rust operations that abort (slice indexing  *)
(* out of range).                                                          *)
(***************************************************************************)
EXTENDS Integers, Sequences, FiniteSets, TLC

VARIABLES sfrom, writer, input, parsed, last

vars == <<sfrom, writer, input, parsed, last>>

(***************************************************************************)
(* Bounds of the model.                                                    *)
(***************************************************************************)
MaxRomLen == 1
MaxPcmLen == 1
MaxBodyLen == 40
MaxChunks == 3

(***************************************************************************)
(* Option<T> and parser results.                                           *)
(***************************************************************************)
None == << >>
Some(x) == << x >>
IsSome(o) == o # << >>
Unwrap(o) == o[1]

Ok(rest, value) == [kind |-> "Ok", rest |-> rest, value |-> value]
Err(rest, code) == [kind |-> "Err", rest |-> rest, value |-> code]
Panic == [kind |-> "Panic", rest |-> << >>, value |-> "panic"]
NotParsed == [kind |-> "None", rest |-> << >>, value |-> "none"]

(***************************************************************************)
(* Slices.  input[a..b] aborts when a > b or b > len; input[a..] aborts    *)
(* when a > len.  Offsets are 0-based as in the source.                    *)
(***************************************************************************)
SliceOk(s, a, b) == a <= b /\ b <= Len(s)
Slice(s, a, b) == SubSeq(s, a + 1, b)
SliceFrom(s, a) == SubSeq(s, a + 1, Len(s))

RECURSIVE Pow256(_)
Pow256(n) == IF n = 0 THEN 1 ELSE 256 * Pow256(n - 1)

\* little-endian value of a byte sequence
RECURSIVE from_le_bytes(_)
from_le_bytes(bytes) ==
    IF bytes = << >> THEN 0
    ELSE Head(bytes) + 256 * from_le_bytes(Tail(bytes))

\* n.to_le_bytes() for an integer of the given byte width; only the low
\* `width` bytes of n are kept, which is also what `n as u32` keeps
to_le_bytes(n, width) == [i \in 1..width |-> (n \div Pow256(i - 1)) % 256]

(***************************************************************************)
(* nom primitives (complete variants).                                     *)
(***************************************************************************)
take(count, i) ==
    IF Len(i) < count THEN Err(i, "Eof")
    ELSE Ok(SliceFrom(i, count), Slice(i, 0, count))

tag(t, i) ==
    IF Len(i) >= Len(t) /\ Slice(i, 0, Len(t)) = t
    THEN Ok(SliceFrom(i, Len(t)), t)
    ELSE Err(i, "Tag")

le_u8(i) ==
    LET r == take(1, i)
    IN IF r.kind = "Ok" THEN Ok(r.rest, from_le_bytes(r.value)) ELSE r

le_u16(i) ==
    LET r == take(2, i)
    IN IF r.kind = "Ok" THEN Ok(r.rest, from_le_bytes(r.value)) ELSE r

le_u32(i) ==
    LET r == take(4, i)
    IN IF r.kind = "Ok" THEN Ok(r.rest, from_le_bytes(r.value)) ELSE r

\* tuple((p1, .., pn)) for parsers that each read a fixed number of bytes:
\* widths lists the byte width of every parser in order; the value is the
\* sequence of the raw fields.
RECURSIVE tuple(_, _)
tuple(widths, i) ==
    IF widths = << >> THEN Ok(i, << >>)
    ELSE LET r == take(Head(widths), i)
         IN IF r.kind # "Ok" THEN r
            ELSE LET t == tuple(Tail(widths), r.rest)
                 IN IF t.kind # "Ok" THEN t
                    ELSE Ok(t.rest, <<r.value>> \o t.value)

\* Helper function for 24-bit little endian integers
le_u24(i) ==
    LET r == take(3, i)
    IN IF r.kind # "Ok" THEN r
       ELSE Ok(r.rest, r.value[1] + r.value[2] * 256 + r.value[3] * 65536)

(***************************************************************************)
(* SfromHeader::parse                                                      *)
(***************************************************************************)
SfromHeaderWidths == <<4, 4, 4, 4, 4, 4, 4, 4, 4, 8, 4>>

SfromHeader_parse(i) ==
    LET r == tuple(SfromHeaderWidths, i)
    IN IF r.kind # "Ok" THEN r
       ELSE Ok(r.rest,
               [magic |-> from_le_bytes(r.value[1]),
                file_size |-> from_le_bytes(r.value[2]),
                rom_location |-> from_le_bytes(r.value[3]),
                pcm_samples_location |-> from_le_bytes(r.value[4]),
                pcm_footer_location |-> from_le_bytes(r.value[5]),
                footer_location |-> from_le_bytes(r.value[6]),
                sdd1_data_offset |-> from_le_bytes(r.value[7]),
                reserved1 |-> from_le_bytes(r.value[8]),
                unknown1 |-> from_le_bytes(r.value[9]),
                wiiu_game_id |-> r.value[10],
                reserved2 |-> from_le_bytes(r.value[11])])

(***************************************************************************)
(* SfromFooter::parse                                                      *)
(***************************************************************************)
SfromFooterWidths == <<1, 4, 4, 4, 2, 1, 1, 1, 1, 4, 4>>

SfromFooter_parse(i) ==
    LET r == tuple(SfromFooterWidths, i)
    IN IF r.kind # "Ok" THEN r
       ELSE Ok(r.rest,
               [fps |-> from_le_bytes(r.value[1]),
                rom_size |-> from_le_bytes(r.value[2]),
                pcm_samples_size |-> from_le_bytes(r.value[3]),
                pcm_footer_size |-> from_le_bytes(r.value[4]),
                preset_id |-> from_le_bytes(r.value[5]),
                player_count |-> from_le_bytes(r.value[6]),
                sound_volume |-> from_le_bytes(r.value[7]),
                rom_type |-> from_le_bytes(r.value[8]),
                enhancement_chip |-> from_le_bytes(r.value[9]),
                unknown1 |-> from_le_bytes(r.value[10]),
                unknown2 |-> from_le_bytes(r.value[11])])

(***************************************************************************)
(* GameTagData                                                             *)
(***************************************************************************)
TagA == 65
TagD == 68
TagG == 71

EmptyGameTagData ==
    [armet_threshold |-> None, sdd1_data |-> None, preset_id |-> None,
     flags |-> None, unknown_s |-> None, superfx_clock |-> None,
     armet_version |-> None, snes_header_location |-> None,
     unknown_d |-> None, enhancement_chip |-> None,
     resolution_ratio |-> None, unknown_j |-> None, mouse_flag |-> None,
     max_players |-> None, visible_height |-> None, unknown_t |-> None,
     volume |-> None]

parse_tag_a(i) ==
    LET t == tag(<<TagA>>, i)
    IN IF t.kind # "Ok" THEN t ELSE take(3, t.rest)

parse_tag_d(i) ==
    LET t == tag(<<TagD>>, i)
    IN IF t.kind # "Ok" THEN t
       ELSE LET size == le_u24(t.rest)
            IN IF size.kind # "Ok" THEN size ELSE take(size.value, size.rest)

parse_tag_g(i) ==
    LET t == tag(<<TagG>>, i)
    IN IF t.kind # "Ok" THEN t
       ELSE LET skip == take(3, t.rest)
            IN IF skip.kind # "Ok" THEN skip ELSE le_u16(skip.rest)

\* the while loop of GameTagData::parse, from the state (remaining, tag_data)
RECURSIVE GameTagData_loop_strict(_, _)
GameTagData_loop_strict(remaining, tag_data) ==
    IF remaining = << >> THEN Ok(remaining, tag_data)
    ELSE IF remaining[1] = TagA THEN
        LET r == parse_tag_a(remaining)
        IN IF r.kind # "Ok" THEN r
           ELSE GameTagData_loop_strict(r.rest,
                    [tag_data EXCEPT !.armet_threshold = Some(r.value)])
    ELSE IF remaining[1] = TagD THEN
        LET r == parse_tag_d(remaining)
        IN IF r.kind # "Ok" THEN r
           ELSE GameTagData_loop_strict(r.rest,
                    [tag_data EXCEPT !.sdd1_data = Some(r.value)])
    ELSE IF remaining[1] = TagG THEN
        LET r == parse_tag_g(remaining)
        IN IF r.kind # "Ok" THEN r
           ELSE GameTagData_loop_strict(r.rest,
                    [tag_data EXCEPT !.preset_id = Some(r.value)])
    ELSE Err(remaining, "Tag")

RECURSIVE GameTagData_loop(_, _)
GameTagData_loop(remaining, tag_data) ==
    IF remaining = << >> THEN Ok(remaining, tag_data)
    ELSE IF remaining[1] = TagA THEN
        LET r == parse_tag_a(remaining)
        IN IF r.kind # "Ok" THEN r
           ELSE GameTagData_loop(r.rest,
                    [tag_data EXCEPT !.armet_threshold = Some(r.value)])
    ELSE IF remaining[1] = TagD THEN
        LET r == parse_tag_d(remaining)
        IN IF r.kind # "Ok" THEN r
           ELSE GameTagData_loop(r.rest,
                    [tag_data EXCEPT !.sdd1_data = Some(r.value)])
    ELSE IF remaining[1] = TagG THEN
        LET r == parse_tag_g(remaining)
        IN IF r.kind # "Ok" THEN r
           ELSE GameTagData_loop(r.rest,
                    [tag_data EXCEPT !.preset_id = Some(r.value)])
    ELSE Ok(remaining, tag_data)

GameTagData_parse(i) == GameTagData_loop(i, EmptyGameTagData)

(***************************************************************************)
(* Sfrom::parse                                                            *)
(***************************************************************************)
\* rom_end: PCM samples location, or footer location if no PCM data
RomEnd(header) ==
    IF header.pcm_samples_location # header.footer_location
    THEN header.pcm_samples_location
    ELSE header.footer_location

\* "Extract PCM data if present": Ok(_, <<pcm_data, pcm_footer>>) or Panic
PcmRegions_always(header, i) ==
    LET pcm_start == header.pcm_samples_location
        pcm_end == header.pcm_footer_location
        pcm_footer_start == header.pcm_footer_location
        pcm_footer_end == header.footer_location
    IN IF ~SliceOk(i, pcm_start, pcm_end) THEN Panic
       ELSE IF ~SliceOk(i, pcm_footer_start, pcm_footer_end) THEN Panic
       ELSE Ok(i, <<Some(Slice(i, pcm_start, pcm_end)),
                    Some(Slice(i, pcm_footer_start, pcm_footer_end))>>)

PcmRegions(header, i) ==
    IF header.pcm_samples_location # header.footer_location
    THEN LET pcm_start == header.pcm_samples_location
             pcm_end == header.pcm_footer_location
             pcm_footer_start == header.pcm_footer_location
             pcm_footer_end == header.footer_location
         IN IF ~SliceOk(i, pcm_start, pcm_end) THEN Panic
            ELSE IF ~SliceOk(i, pcm_footer_start, pcm_footer_end) THEN Panic
            ELSE Ok(i, <<Some(Slice(i, pcm_start, pcm_end)),
                         Some(Slice(i, pcm_footer_start, pcm_footer_end))>>)
    ELSE Ok(i, <<None, None>>)

Sfrom_parse(buffer) ==
    LET h == SfromHeader_parse(buffer)
    IN IF h.kind # "Ok" THEN h
       ELSE
        \* from here on `input` is what follows the header
        LET i == h.rest
            header == h.value
            rom_end == RomEnd(header)
            rom_start == header.rom_location
        IN IF Len(i) < rom_end THEN Err(i, "Eof")
           ELSE IF ~SliceOk(i, rom_start, rom_end) THEN Panic
           ELSE
            LET rom_data == Slice(i, rom_start, rom_end)
                pcm == PcmRegions(header, i)
                footer_pos == header.footer_location
            IN IF pcm.kind # "Ok" THEN pcm
               ELSE IF footer_pos > Len(i) THEN Panic
               ELSE
                LET f == SfromFooter_parse(SliceFrom(i, footer_pos))
                IN IF f.kind # "Ok" THEN f
                   ELSE
                    LET g == GameTagData_parse(f.rest)
                    IN IF g.kind # "Ok" THEN g
                       ELSE Ok(g.rest,
                               [header |-> header,
                                rom_data |-> rom_data,
                                pcm_data |-> pcm.value[1],
                                pcm_footer |-> pcm.value[2],
                                footer |-> f.value,
                                game_tags |-> g.value])

(***************************************************************************)
(* The sink of Sfrom::write: a Write + Seek object, modelled as a position *)
(* and the bytes it holds (a Cursor over a Vec<u8>, or a file).            *)
(***************************************************************************)
EmptyWriter == [pos |-> 0, data |-> << >>]

Max(a, b) == IF a >= b THEN a ELSE b

\* writer.seek(SeekFrom::Start(pos))
seek(w, pos) == [w EXCEPT !.pos = pos]

\* writer.write_all(bytes): overwrite from pos, growing the sink as needed
write_all(w, bytes) ==
    IF bytes = << >> THEN w
    ELSE LET end == w.pos + Len(bytes)
             newlen == Max(Len(w.data), end)
         IN [pos |-> end,
             data |-> [k \in 1..newlen |->
                        IF k > w.pos /\ k <= end THEN bytes[k - w.pos]
                        ELSE IF k <= Len(w.data) THEN w.data[k]
                        ELSE 0]]

\* file.set_len(n) on a freshly created (empty) file: n zero bytes
set_len(w, n) == [w EXCEPT !.data = [k \in 1..n |-> 0]]

SeekOp(pos) == [op |-> "seek", pos |-> pos, bytes |-> << >>]
WriteOp(bytes) == [op |-> "write_all", pos |-> 0, bytes |-> bytes]

\* the statements of a write function, run in order on the sink
RECURSIVE RunOps(_, _)
RunOps(w, ops) ==
    IF ops = << >> THEN w
    ELSE LET o == Head(ops)
         IN RunOps(IF o.op = "seek" THEN seek(w, o.pos)
                   ELSE write_all(w, o.bytes),
                   Tail(ops))

(***************************************************************************)
(* Sfrom::write_game_tags                                                  *)
(***************************************************************************)
write_game_tags(self) ==
    (IF IsSome(self.game_tags.armet_threshold)
     THEN <<WriteOp(<<TagA>>),
            WriteOp(Unwrap(self.game_tags.armet_threshold))>>
     ELSE << >>)
    \o
    (IF IsSome(self.game_tags.sdd1_data)
     THEN LET data == Unwrap(self.game_tags.sdd1_data)
          IN <<WriteOp(<<TagD>>),
               WriteOp(SubSeq(to_le_bytes(Len(data), 4), 1, 3)),
               WriteOp(data)>>
     ELSE << >>)

(***************************************************************************)
(* Sfrom::write                                                            *)
(***************************************************************************)
\* "Calculate all the necessary offsets and sizes first"
Layout_stored(self) ==
    [rom_start |-> self.header.rom_location,
     rom_end |-> self.header.rom_location + Len(self.rom_data),
     pcm_start |-> self.header.pcm_samples_location,
     pcm_footer_start |-> self.header.pcm_footer_location,
     footer_start |-> self.header.footer_location]

Layout(self) ==
    LET header_size == 48
        rom_start == header_size
        rom_end == rom_start + Len(self.rom_data)
    IN IF IsSome(self.pcm_data) /\ IsSome(self.pcm_footer)
       THEN [rom_start |-> rom_start, rom_end |-> rom_end,
             pcm_start |-> rom_end,
             pcm_footer_start |-> rom_end + Len(Unwrap(self.pcm_data)),
             footer_start |-> rom_end + Len(Unwrap(self.pcm_data))
                                + Len(Unwrap(self.pcm_footer))]
       ELSE [rom_start |-> rom_start, rom_end |-> rom_end,
             pcm_start |-> rom_end, pcm_footer_start |-> rom_end,
             footer_start |-> rom_end]

\* "Calculate game tags size"
GameTagsSize(self) ==
    (IF IsSome(self.game_tags.armet_threshold) THEN 4 ELSE 0)
    + (IF IsSome(self.game_tags.sdd1_data)
       THEN 4 + Len(Unwrap(self.game_tags.sdd1_data)) ELSE 0)

TotalSize(self) == Layout(self).footer_start + 35 + GameTagsSize(self)

Sfrom_write(self, w) ==
    LET l == Layout(self)
        total_size == TotalSize(self)
    IN RunOps(w,
        <<SeekOp(0),
          WriteOp(to_le_bytes(256, 4)),
          WriteOp(to_le_bytes(total_size, 4)),
          WriteOp(to_le_bytes(l.rom_start, 4)),
          WriteOp(to_le_bytes(l.pcm_start, 4)),
          WriteOp(to_le_bytes(l.pcm_footer_start, 4)),
          WriteOp(to_le_bytes(l.footer_start, 4)),
          WriteOp(to_le_bytes(self.header.sdd1_data_offset, 4)),
          WriteOp(to_le_bytes(0, 4)),
          WriteOp(to_le_bytes(self.header.unknown1, 4)),
          WriteOp(self.header.wiiu_game_id),
          WriteOp(to_le_bytes(0, 4)),
          SeekOp(l.rom_start),
          WriteOp(self.rom_data)>>
        \o
        (IF IsSome(self.pcm_data) /\ IsSome(self.pcm_footer)
         THEN <<SeekOp(l.pcm_start),
                WriteOp(Unwrap(self.pcm_data)),
                SeekOp(l.pcm_footer_start),
                WriteOp(Unwrap(self.pcm_footer))>>
         ELSE << >>)
        \o
        <<SeekOp(l.footer_start),
          WriteOp(<<self.footer.fps>>),
          WriteOp(to_le_bytes(self.footer.rom_size, 4)),
          WriteOp(to_le_bytes(self.footer.pcm_samples_size, 4)),
          WriteOp(to_le_bytes(self.footer.pcm_footer_size, 4)),
          WriteOp(to_le_bytes(self.footer.preset_id, 2)),
          WriteOp(<<self.footer.player_count,
                    self.footer.sound_volume,
                    self.footer.rom_type,
                    self.footer.enhancement_chip>>),
          WriteOp(to_le_bytes(self.footer.unknown1, 4)),
          WriteOp(to_le_bytes(self.footer.unknown2, 4))>>
        \o
        write_game_tags(self))

\* Sfrom::save_to_file: create the file, pre-allocate it, write into it
save_to_file(self) ==
    Sfrom_write(self, set_len(EmptyWriter, self.header.file_size))

(***************************************************************************)
(* The values the operations are applied to.                               *)
(***************************************************************************)
RECURSIVE SeqsUpTo(_, _)
SeqsUpTo(S, n) ==
    IF n = 0 THEN {<< >>}
    ELSE LET shorter == SeqsUpTo(S, n - 1)
         IN shorter \cup {Append(q, x) : q \in shorter, x \in S}

\* the 10-byte ROM of the 93-byte scenario
ScenarioRom == [k \in 1..10 |-> 16 + k]

RomBlobs == SeqsUpTo({42}, MaxRomLen) \cup {ScenarioRom}
PcmBlobs == SeqsUpTo({85}, MaxPcmLen)

\* pcm_data and pcm_footer are independent Option fields of the struct
PcmPairs ==
    {<<None, None>>, <<Some(<<85>>), None>>, <<None, Some(<<85>>)>>}
    \cup {<<Some(a), Some(b)>> : a \in PcmBlobs, b \in PcmBlobs}

WiiuGameId == <<87, 85, 80, 45, 74, 65, 66, 69>>

Headers ==
    {[magic |-> 256, file_size |-> 93, rom_location |-> 48,
      pcm_samples_location |-> 58, pcm_footer_location |-> 58,
      footer_location |-> 58, sdd1_data_offset |-> 0, reserved1 |-> 0,
      unknown1 |-> 1, wiiu_game_id |-> WiiuGameId, reserved2 |-> 0],
     [magic |-> 0, file_size |-> 0, rom_location |-> 0,
      pcm_samples_location |-> 4, pcm_footer_location |-> 2,
      footer_location |-> 0, sdd1_data_offset |-> 0, reserved1 |-> 7,
      unknown1 |-> 1, wiiu_game_id |-> WiiuGameId, reserved2 |-> 9],
     [magic |-> 256, file_size |-> 200, rom_location |-> 48,
      pcm_samples_location |-> 100, pcm_footer_location |-> 120,
      footer_location |-> 130, sdd1_data_offset |-> 3, reserved1 |-> 0,
      unknown1 |-> 2, wiiu_game_id |-> WiiuGameId, reserved2 |-> 0]}

ScenarioFooter ==
    [fps |-> 60, rom_size |-> 10, pcm_samples_size |-> 0,
     pcm_footer_size |-> 0, preset_id |-> 0, player_count |-> 1,
     sound_volume |-> 255, rom_type |-> 20, enhancement_chip |-> 0,
     unknown1 |-> 1, unknown2 |-> 1]

Footers ==
    {ScenarioFooter,
     [fps |-> 50, rom_size |-> 1, pcm_samples_size |-> 1,
      pcm_footer_size |-> 1, preset_id |-> 4660, player_count |-> 2,
      sound_volume |-> 100, rom_type |-> 21, enhancement_chip |-> 12,
      unknown1 |-> 1, unknown2 |-> 1]}

GameTags ==
    {[EmptyGameTagData EXCEPT !.armet_threshold = a, !.sdd1_data = d,
                              !.preset_id = g] :
        a \in {None, Some(<<1, 2, 3>>)},
        d \in {None, Some(<<9>>)},
        g \in {None, Some(4660)}}
    \cup {[EmptyGameTagData EXCEPT !.volume = Some(5)]}

Sfroms ==
    {[header |-> h, rom_data |-> r, pcm_data |-> p[1], pcm_footer |-> p[2],
      footer |-> f, game_tags |-> g] :
        h \in Headers, r \in RomBlobs, p \in PcmPairs, f \in Footers,
        g \in GameTags}

\* bytes that follow the header in a received buffer: n distinct bytes, with
\* an armet record where the tag table starts when the footer is at offset 4
Body(n) == [k \in 1..n |-> IF k = 32 THEN TagA ELSE k]

Bodies == {Body(0), Body(MaxBodyLen - 10), Body(MaxBodyLen)}

Offsets == {0, 2, 4, 48, 100}

\* the 48 header bytes of a received buffer with the given field values
HeaderBytes(magic, rom, pcm, pcm_footer, footer) ==
    to_le_bytes(magic, 4) \o to_le_bytes(0, 4) \o to_le_bytes(rom, 4)
    \o to_le_bytes(pcm, 4) \o to_le_bytes(pcm_footer, 4)
    \o to_le_bytes(footer, 4) \o to_le_bytes(0, 4) \o to_le_bytes(0, 4)
    \o to_le_bytes(0, 4) \o WiiuGameId \o to_le_bytes(0, 4)

FileBuffers ==
    {HeaderBytes(m, r, p, pf, f) \o b :
        m \in {256, 0}, r \in Offsets, p \in Offsets, pf \in Offsets,
        f \in Offsets, b \in Bodies}

\* pieces of a tag table: whole and cut-short records, and bytes that are
\* not a tag code the decoder knows (0, and 'P', a code without a decoder)
Chunks ==
    {<<TagA, 1, 2, 3>>, <<TagA, 1>>, <<TagD, 1, 0, 0, 9>>, <<TagD, 2, 0, 0, 9>>,
     <<TagG, 0, 0, 0, 52, 18>>, <<0>>, <<80>>}

RECURSIVE ChunkSeqs(_)
ChunkSeqs(n) ==
    IF n = 0 THEN {<< >>}
    ELSE LET shorter == ChunkSeqs(n - 1)
         IN shorter \cup {q \o c : q \in shorter, c \in Chunks}

TagBuffers == ChunkSeqs(MaxChunks)

Buffers == FileBuffers \cup TagBuffers

(***************************************************************************)
(* State machine: a caller builds a container and writes it, or receives   *)
(* a buffer and parses it.                                                 *)
(***************************************************************************)
Init ==
    /\ sfrom = None
    /\ writer = EmptyWriter
    /\ input = << >>
    /\ parsed = NotParsed
    /\ last = "init"

\* direct construction of a container for authoring
Construct(c) ==
    /\ last = "init"
    /\ sfrom' = Some(c)
    /\ writer' = EmptyWriter
    /\ input' = << >>
    /\ parsed' = NotParsed
    /\ last' = "construct"

\* Sfrom::write into a fresh in-memory sink
Write ==
    /\ last = "construct"
    /\ writer' = Sfrom_write(Unwrap(sfrom), EmptyWriter)
    /\ last' = "write"
    /\ UNCHANGED <<sfrom, input, parsed>>

\* Sfrom::save_to_file
SaveToFile ==
    /\ last = "construct"
    /\ writer' = save_to_file(Unwrap(sfrom))
    /\ last' = "save_to_file"
    /\ UNCHANGED <<sfrom, input, parsed>>

\* the written bytes are read back (std::fs::read in examples/parse.rs)
ReadBack ==
    /\ last \in {"write", "save_to_file"}
    /\ input' = writer.data
    /\ last' = IF last = "write" THEN "read" ELSE "read_file"
    /\ UNCHANGED <<sfrom, writer, parsed>>

\* a buffer arrives from outside
Receive(b) ==
    /\ last = "init"
    /\ sfrom' = None
    /\ writer' = EmptyWriter
    /\ input' = b
    /\ parsed' = NotParsed
    /\ last' = "receive"

\* Sfrom::parse
Parse ==
    /\ last \in {"read", "read_file", "receive"}
    /\ parsed' = Sfrom_parse(input)
    /\ last' = "parse"
    /\ UNCHANGED <<sfrom, writer, input>>

\* GameTagData::parse
ParseTags ==
    /\ last = "receive"
    /\ parsed' = GameTagData_parse(input)
    /\ last' = "parse_tags"
    /\ UNCHANGED <<sfrom, writer, input>>

\* SfromFooter::parse
ParseFooter ==
    /\ last = "receive"
    /\ parsed' = SfromFooter_parse(input)
    /\ last' = "parse_footer"
    /\ UNCHANGED <<sfrom, writer, input>>

Next ==
    \/ \E c \in Sfroms : Construct(c)
    \/ Write
    \/ SaveToFile
    \/ ReadBack
    \/ \E b \in Buffers : Receive(b)
    \/ Parse
    \/ ParseTags
    \/ ParseFooter

Spec == Init /\ [][Next]_vars

TypeOK ==
    /\ last \in {"init", "construct", "write", "save_to_file", "read",
                 "read_file", "receive", "parse", "parse_tags",
                 "parse_footer"}
    /\ parsed.kind \in {"None", "Ok", "Err", "Panic"}
    /\ \A k \in 1..Len(input) : input[k] \in 0..255
    /\ \A k \in 1..Len(writer.data) : writer.data[k] \in 0..255

(***************************************************************************)
(* Vocabulary of the properties.                                           *)
(***************************************************************************)
\* the little-endian 32-bit field at byte offset off of a buffer
U32At(buf, off) == from_le_bytes(SubSeq(buf, off + 1, off + 4))

HasAudioPair(c) == IsSome(c.pcm_data) /\ IsSome(c.pcm_footer)
AudioWellFormed(c) == IsSome(c.pcm_data) <=> IsSome(c.pcm_footer)

\* the tag codes the decoder dispatches on
KnownCodes == {TagA, TagD, TagG}

\* the bytes write_game_tags emits for a container
RECURSIVE OpsBytes(_)
OpsBytes(ops) ==
    IF ops = << >> THEN << >> ELSE Head(ops).bytes \o OpsBytes(Tail(ops))

EncodedTags(c) == OpsBytes(write_game_tags(c))

\* the sink holds exactly the bytes Sfrom::write emitted
SinkIsWritten == writer.pos = Len(writer.data)

(***************************************************************************)
(* C1: round trip.  For every container with a well-formed audio pair,     *)
(* parsing the bytes Sfrom::write emitted succeeds and yields the same ROM *)
(* blob, audio blobs, footer and tag table, and the header that was        *)
(* written.                                                                *)
(***************************************************************************)
C1_RoundTrip ==
    (/\ last = "parse"
     /\ IsSome(sfrom)
     /\ SinkIsWritten
     /\ AudioWellFormed(Unwrap(sfrom)))
    => /\ parsed.kind = "Ok"
       /\ parsed.value.rom_data = Unwrap(sfrom).rom_data
       /\ parsed.value.pcm_data = Unwrap(sfrom).pcm_data
       /\ parsed.value.pcm_footer = Unwrap(sfrom).pcm_footer
       /\ parsed.value.footer = Unwrap(sfrom).footer
       /\ parsed.value.game_tags = Unwrap(sfrom).game_tags
       /\ parsed.value.header.magic = U32At(input, 0)
       /\ parsed.value.header.file_size = U32At(input, 4)
       /\ parsed.value.header.rom_location = U32At(input, 8)
       /\ parsed.value.header.pcm_samples_location = U32At(input, 12)
       /\ parsed.value.header.pcm_footer_location = U32At(input, 16)
       /\ parsed.value.header.footer_location = U32At(input, 20)

(***************************************************************************)
(* C2: the 93-byte scenario.  Writing the container with the 10-byte ROM,  *)
(* no audio, an empty tag table and the scenario footer emits exactly 93   *)
(* bytes, with rom_offset = 48, audio_samples_offset = footer_offset = 58  *)
(* and total_size = 93.                                                    *)
(***************************************************************************)
C2_Scenario93 ==
    (/\ last = "write"
     /\ Unwrap(sfrom).rom_data = ScenarioRom
     /\ Unwrap(sfrom).pcm_data = None
     /\ Unwrap(sfrom).pcm_footer = None
     /\ Unwrap(sfrom).footer = ScenarioFooter
     /\ Unwrap(sfrom).game_tags = EmptyGameTagData)
    => /\ Len(writer.data) = 93
       /\ U32At(writer.data, 4) = 93
       /\ U32At(writer.data, 4) = Len(writer.data)
       /\ U32At(writer.data, 8) = 48
       /\ U32At(writer.data, 12) = 58
       /\ U32At(writer.data, 20) = 58

(***************************************************************************)
(* C3: the footer is 35 bytes wide in both directions.  SfromFooter::parse *)
(* consumes exactly 35 bytes when it succeeds, and the footer section that *)
(* Sfrom::write emits (what lies between footer_start and the tag table)   *)
(* is exactly 35 bytes long.                                               *)
(***************************************************************************)
C3_FooterIs35Bytes ==
    /\ (last = "parse_footer" /\ parsed.kind = "Ok")
       => Len(input) - Len(parsed.rest) = 35
    /\ (last = "write")
       => Len(writer.data) - U32At(writer.data, 20)
            - Len(EncodedTags(Unwrap(sfrom))) = 35

(***************************************************************************)
(* C4: a buffer of at least 48 bytes whose header declares a footer_offset *)
(* greater than the buffer length makes Sfrom::parse return an error       *)
(* value: no container, no abort, with audio present or absent.  Stated    *)
(* for buffers with the expected magic, so that nothing rests on C9.       *)
(***************************************************************************)
C4_FooterOutOfBoundsIsError ==
    (/\ last = "parse"
     /\ Len(input) >= 48
     /\ U32At(input, 0) = 256
     /\ U32At(input, 20) > Len(input))
    => parsed.kind = "Err"

(***************************************************************************)
(* C5: no-audio sentinel.  A buffer that parses successfully and whose     *)
(* header has audio_samples_offset = footer_offset yields a container with *)
(* both audio blobs absent; and the header written for a container without *)
(* an audio pair has audio_samples_offset = audio_trailer_offset =         *)
(* footer_offset.                                                          *)
(***************************************************************************)
C5_NoAudioSentinel ==
    /\ (/\ last = "parse"
        /\ parsed.kind = "Ok"
        /\ U32At(input, 12) = U32At(input, 20))
       => /\ parsed.value.pcm_data = None
          /\ parsed.value.pcm_footer = None
    /\ (/\ last \in {"write", "save_to_file"}
        /\ ~HasAudioPair(Unwrap(sfrom)))
       => /\ U32At(writer.data, 12) = U32At(writer.data, 20)
          /\ U32At(writer.data, 16) = U32At(writer.data, 20)

\* a container without audio was written, read back and parsed successfully
C5_Witness ==
    /\ last = "parse"
    /\ IsSome(sfrom)
    /\ ~HasAudioPair(Unwrap(sfrom))
    /\ U32At(writer.data, 12) = U32At(writer.data, 20)
    /\ parsed.kind = "Ok"
    /\ U32At(input, 12) = U32At(input, 20)
    /\ parsed.value.pcm_data = None

(***************************************************************************)
(* C6: a tag table whose only present tag is the preset identifier 'G'     *)
(* with value 0x1234 is encoded as 'G', 3 reserved bytes, 0x34, 0x12, and  *)
(* these 6 bytes are counted in the header total_size.                     *)
(***************************************************************************)
C6_PresetTagIsEncoded ==
    (/\ last = "write"
     /\ Unwrap(sfrom).game_tags
            = [EmptyGameTagData EXCEPT !.preset_id = Some(4660)])
    => LET d == writer.data
           n == Len(writer.data)
       IN /\ n >= U32At(d, 20) + 6
          /\ d[n - 5] = TagG
          /\ d[n - 1] = 52
          /\ d[n] = 18
          /\ U32At(d, 4) = U32At(d, 20) + 35 + 6

C8_OffsetsFromLengths ==
    (last = "write") =>
        LET c == Unwrap(sfrom)
            d == writer.data
            rom_len == Len(c.rom_data)
            audio_len ==
                IF HasAudioPair(c) THEN Len(Unwrap(c.pcm_data)) ELSE 0
            trailer_len ==
                IF HasAudioPair(c) THEN Len(Unwrap(c.pcm_footer)) ELSE 0
        IN /\ U32At(d, 8) = 48
           /\ U32At(d, 12) = 48 + rom_len
           /\ U32At(d, 16) = 48 + rom_len + audio_len
           /\ U32At(d, 20) = 48 + rom_len + audio_len + trailer_len
           /\ U32At(d, 4) = U32At(d, 20) + 35 + Len(EncodedTags(c))
           /\ \A h \in Headers :
                (/\ h.sdd1_data_offset = c.header.sdd1_data_offset
                 /\ h.unknown1 = c.header.unknown1
                 /\ h.wiiu_game_id = c.header.wiiu_game_id)
                => Sfrom_write([c EXCEPT !.header = h], EmptyWriter).data = d

\* a container with audio and tags whose stored offsets are not the ones
\* its blob lengths give
C8_Witness ==
    /\ last = "write"
    /\ HasAudioPair(Unwrap(sfrom))
    /\ Len(Unwrap(Unwrap(sfrom).pcm_data)) > 0
    /\ Len(Unwrap(Unwrap(sfrom).pcm_footer)) > 0
    /\ IsSome(Unwrap(sfrom).game_tags.sdd1_data)
    /\ Unwrap(sfrom).header.footer_location # U32At(writer.data, 20)
    /\ Unwrap(sfrom).header.file_size # U32At(writer.data, 4)
    /\ Unwrap(sfrom).header.magic # 256

(***************************************************************************)
(* C9: Sfrom::parse validates the magic.  A buffer of at least 48 bytes    *)
(* whose first four bytes are not the little-endian value 0x00000100 is    *)
(* rejected: parse returns no container.                                   *)
(***************************************************************************)
C9_BadMagicRejected ==
    (/\ last = "parse"
     /\ Len(input) >= 48
     /\ U32At(input, 0) # 256)
    => parsed.kind # "Ok"

(***************************************************************************)
(* C10: regions are addressed from the start of the buffer given to        *)
(* Sfrom::parse.  On success the ROM blob is buffer[rom_offset, rom_end),  *)
(* with rom_end the audio_samples_offset if it differs from footer_offset  *)
(* and footer_offset otherwise; with audio present the sample blob is      *)
(* buffer[audio_samples_offset, audio_trailer_offset) and the trailer blob *)
(* buffer[audio_trailer_offset, footer_offset); and the footer is decoded  *)
(* from the bytes starting at buffer[footer_offset].  Stated for buffers   *)
(* with the expected magic, so that nothing rests on C9.                   *)
(***************************************************************************)
C10_RegionsFromBufferStart ==
    (last = "parse" /\ parsed.kind = "Ok" /\ U32At(input, 0) = 256) =>
        LET rom == U32At(input, 8)
            pcm == U32At(input, 12)
            pcm_footer == U32At(input, 16)
            footer == U32At(input, 20)
            rom_end == IF pcm # footer THEN pcm ELSE footer
        IN /\ SliceOk(input, rom, rom_end)
           /\ parsed.value.rom_data = Slice(input, rom, rom_end)
           /\ (pcm # footer)
              => /\ SliceOk(input, pcm, pcm_footer)
                 /\ SliceOk(input, pcm_footer, footer)
                 /\ parsed.value.pcm_data = Some(Slice(input, pcm, pcm_footer))
                 /\ parsed.value.pcm_footer
                        = Some(Slice(input, pcm_footer, footer))
           /\ footer <= Len(input)
           /\ SfromFooter_parse(SliceFrom(input, footer)).kind = "Ok"
           /\ parsed.value.footer
                = SfromFooter_parse(SliceFrom(input, footer)).value

(***************************************************************************)
(* C11: Sfrom::parse is total over header offsets that describe an invalid *)
(* region.  For a buffer of at least 48 bytes whose header offsets all lie *)
(* within the buffer but are out of order (rom_offset > rom_end, or, with  *)
(* audio present, audio_samples_offset > audio_trailer_offset or           *)
(* audio_trailer_offset > footer_offset), parse returns an error value: it *)
(* does not abort and returns no container.  Stated for buffers with the   *)
(* expected magic, so that nothing rests on C9.                            *)
(***************************************************************************)
C11_OutOfOrderOffsetsAreError ==
    LET rom == U32At(input, 8)
        pcm == U32At(input, 12)
        pcm_footer == U32At(input, 16)
        footer == U32At(input, 20)
        rom_end == IF pcm # footer THEN pcm ELSE footer
    IN (/\ last = "parse"
        /\ Len(input) >= 48
        /\ U32At(input, 0) = 256
        /\ rom <= Len(input)
        /\ pcm <= Len(input)
        /\ pcm_footer <= Len(input)
        /\ footer <= Len(input)
        /\ \/ rom > rom_end
           \/ pcm # footer /\ pcm > pcm_footer
           \/ pcm # footer /\ pcm_footer > footer)
       => parsed.kind = "Err"

====
